---- MODULE Spec2Model ----
(***************************************************************************)
(* Model of client/src/workers/CaptureCompositor.ts (KonomiTV).            *)
(*                                                                         *)
(* A CaptureCompositor holds one options object.  composite() starts the   *)
(* captioned path and/or a normal path (direct transfer or full            *)
(* compositing) as async functions and awaits them with Promise.all.       *)
(* JavaScript runs one task at a time: an async function runs              *)
(* synchronously up to its first await, then its continuations are run by  *)
(* the event loop when the awaited promise settles.  `cur` is the task     *)
(* that holds the thread, pc[t] the position of task t.                    *)
(***************************************************************************)
EXTENDS Integers, Sequences, FiniteSets, TLC

\* ---------------------------------------------------------------- bounds
MaxComments == 2        \* most comment items in a comment layer spec

\* ------------------------------------------------------- values and inputs
NULL == [null |-> TRUE]

Modes == {"VideoOnly", "CompositingCaption", "Both"}

\* ImageBitmap: width and height read 0 once the bitmap is closed / detached
ImageBitmap(name) == [bitmap |-> name, width |-> 4, height |-> 2, closed |-> FALSE]

\* ICaptureCommentData.comments[i]
CommentItem(i) ==
    [top |-> i, left |-> 2 * i, color |-> i, font_size |-> 10 + i, text |-> <<64 + i>>]
\* opacity is 0.0 - 1.0 in the source; kept here in percent
Opacities == {50, 100}
ICaptureCommentData(n, o) ==
    [container_width |-> 2, container_height |-> 1, opacity |-> o,
     comments |-> [i \in 1..n |-> CommentItem(i)]]
CommentDataSet == {NULL} \cup {ICaptureCommentData(n, o) : n \in 0..MaxComments, o \in Opacities}

\* ICaptureExifData; a string is a sequence of UTF-16 code units,
\* caption_text (string | null) is <<>> for null and <<s>> for the string s.
\* Two sets of facts: one with quotes, a backslash, control characters and
\* non-ASCII text and no caption text, one with a negative position and a caption text.
ICaptureExifData(facts, f1, f2) ==
    [captured_at |-> <<50, 48, 50, 52>>,
     captured_playback_position |-> IF facts = 1 THEN 12 ELSE -3,
     network_id |-> 32736,
     service_id |-> 1024,
     event_id |-> 0,
     title |-> IF facts = 1 THEN <<12354, 34>> ELSE <<>>,
     description |-> <<65, 92, 10, 9, 1, 47, 12354>>,
     start_time |-> <<49>>,
     end_time |-> <<50>>,
     duration |-> 1800,
     caption_text |-> IF facts = 1 THEN <<>> ELSE <<<<12354, 34>>>>,
     is_caption_composited |-> f1,
     is_comment_composited |-> f2]
ExifDataSet == {ICaptureExifData(k, f1, f2) : k \in {1, 2}, f1 \in BOOLEAN, f2 \in BOOLEAN}

ICaptureCompositorOptions ==
    [mode : Modes,
     capture : {ImageBitmap("capture")},
     caption : {NULL, ImageBitmap("caption")},
     superimpose : {NULL, ImageBitmap("superimpose")},
     capture_comment_data : CommentDataSet,
     capture_exif_data : ExifDataSet]

\* --------------------------------------------- JSON.stringify and 'ucs2'
FieldOrder ==
    <<"captured_at", "captured_playback_position", "network_id", "service_id", "event_id",
      "title", "description", "start_time", "end_time", "duration", "caption_text",
      "is_caption_composited", "is_comment_composited">>

FieldType ==
    [captured_at |-> "string", captured_playback_position |-> "number", network_id |-> "number",
     service_id |-> "number", event_id |-> "number", title |-> "string", description |-> "string",
     start_time |-> "string", end_time |-> "string", duration |-> "number",
     caption_text |-> "string|null", is_caption_composited |-> "boolean",
     is_comment_composited |-> "boolean"]

\* the property names as UTF-16 code units
FieldKey ==
    [captured_at |-> <<99, 97, 112, 116, 117, 114, 101, 100, 95, 97, 116>>,
     captured_playback_position |-> <<99, 97, 112, 116, 117, 114, 101, 100, 95, 112, 108, 97, 121, 98, 97, 99, 107, 95, 112, 111, 115, 105, 116, 105, 111, 110>>,
     network_id |-> <<110, 101, 116, 119, 111, 114, 107, 95, 105, 100>>,
     service_id |-> <<115, 101, 114, 118, 105, 99, 101, 95, 105, 100>>,
     event_id |-> <<101, 118, 101, 110, 116, 95, 105, 100>>,
     title |-> <<116, 105, 116, 108, 101>>,
     description |-> <<100, 101, 115, 99, 114, 105, 112, 116, 105, 111, 110>>,
     start_time |-> <<115, 116, 97, 114, 116, 95, 116, 105, 109, 101>>,
     end_time |-> <<101, 110, 100, 95, 116, 105, 109, 101>>,
     duration |-> <<100, 117, 114, 97, 116, 105, 111, 110>>,
     caption_text |-> <<99, 97, 112, 116, 105, 111, 110, 95, 116, 101, 120, 116>>,
     is_caption_composited |-> <<105, 115, 95, 99, 97, 112, 116, 105, 111, 110, 95, 99, 111, 109, 112, 111, 115, 105, 116, 101, 100>>,
     is_comment_composited |-> <<105, 115, 95, 99, 111, 109, 109, 101, 110, 116, 95, 99, 111, 109, 112, 111, 115, 105, 116, 101, 100>>]

HexDigit(n) == IF n < 10 THEN 48 + n ELSE 87 + n

\* JSON.stringify's QuoteJSONString, one code unit
QuoteChar(c) ==
    CASE c >= 32 /\ c # 34 /\ c # 92 -> <<c>>
      [] c = 34 -> <<92, 34>>
      [] c = 92 -> <<92, 92>>
      [] c = 8  -> <<92, 98>>
      [] c = 12 -> <<92, 102>>
      [] c = 10 -> <<92, 110>>
      [] c = 13 -> <<92, 114>>
      [] c = 9  -> <<92, 116>>
      [] OTHER -> <<92, 117, 48, 48, HexDigit(c \div 16), HexDigit(c % 16)>>

RECURSIVE QuoteBody(_, _)
QuoteBody(s, i) == IF i > Len(s) THEN <<>> ELSE QuoteChar(s[i]) \o QuoteBody(s, i + 1)

QuoteJSONString(s) == <<34>> \o QuoteBody(s, 1) \o <<34>>

RECURSIVE Digits(_)
Digits(n) == IF n < 10 THEN <<48 + n>> ELSE Digits(n \div 10) \o <<48 + (n % 10)>>

NumberToString(n) == IF n < 0 THEN <<45>> \o Digits(0 - n) ELSE Digits(n)

SerializeJSONProperty(type, v) ==
    CASE type = "string" -> QuoteJSONString(v)
      [] type = "number" -> NumberToString(v)
      [] type = "boolean" -> IF v THEN <<116, 114, 117, 101>> ELSE <<102, 97, 108, 115, 101>>
      [] type = "string|null" -> IF v = <<>> THEN <<110, 117, 108, 108>> ELSE QuoteJSONString(v[1])

RECURSIVE SerializeJSONObject(_, _)
SerializeJSONObject(rec, i) ==
    IF i > Len(FieldOrder) THEN <<>>
    ELSE LET f == FieldOrder[i]
         IN  (IF i > 1 THEN <<44>> ELSE <<>>)
             \o QuoteJSONString(FieldKey[f]) \o <<58>>
             \o SerializeJSONProperty(FieldType[f], rec[f])
             \o SerializeJSONObject(rec, i + 1)

JSONStringify(rec) == <<123>> \o SerializeJSONObject(rec, 1) \o <<125>>

\* mutant: one byte per code unit, the high byte dropped
BufferFromUCS2_latin1(text) ==
    [i \in 1..(2 * Len(text)) |->
        IF i % 2 = 1 THEN text[(i + 1) \div 2] % 256 ELSE 0]

\* [...Buffer.from(text, 'ucs2')]: two bytes per code unit, low byte first
BufferFromUCS2(text) ==
    [i \in 1..(2 * Len(text)) |->
        IF i % 2 = 1 THEN text[(i + 1) \div 2] % 256 ELSE text[i \div 2] \div 256]

\* piexif.dump: the EXIF segment; XPComment holds the bytes of the JSON text
\* (the JSON text is computed once and bound to `text`)
PiexifDump(exif_data) ==
    CHOOSE exif \in
        {[XResolution |-> <<72, 1>>, YResolution |-> <<72, 1>>, ResolutionUnit |-> 2,
          YCbCrPositioning |-> 1,
          XPComment |-> BufferFromUCS2(text),
          ExifVersion |-> <<48, 50, 51, 48>>, FlashpixVersion |-> <<48, 49, 48, 48>>,
          ComponentsConfiguration |-> <<1, 2, 3, 0>>, ColorSpace |-> 1]
            : text \in {JSONStringify(exif_data)}} : TRUE

\* ------------------------------ reading the embedded payload back (JSON.parse)
UCS2ToText(bytes) ==
    [i \in 1..(Len(bytes) \div 2) |-> bytes[2 * i - 1] + 256 * bytes[2 * i]] \o <<>>

HexValue(c) == IF c <= 57 THEN c - 48 ELSE IF c >= 97 THEN c - 87 ELSE c - 55

Unescape(e) ==
    CASE e = 98 -> 8
      [] e = 102 -> 12
      [] e = 110 -> 10
      [] e = 114 -> 13
      [] e = 116 -> 9
      [] OTHER -> e

RECURSIVE ParseStringBody(_, _, _)
ParseStringBody(t, i, acc) ==
    IF i > Len(t) THEN [v |-> acc, next |-> i]
    ELSE IF t[i] = 34 THEN [v |-> acc, next |-> i + 1]
    ELSE IF t[i] = 92
         THEN IF t[i + 1] = 117
              THEN ParseStringBody(t, i + 6,
                       Append(acc, 4096 * HexValue(t[i + 2]) + 256 * HexValue(t[i + 3])
                                   + 16 * HexValue(t[i + 4]) + HexValue(t[i + 5])))
              ELSE ParseStringBody(t, i + 2, Append(acc, Unescape(t[i + 1])))
         ELSE ParseStringBody(t, i + 1, Append(acc, t[i]))

RECURSIVE ParseDigits(_, _, _)
ParseDigits(t, i, acc) ==
    IF i <= Len(t) /\ t[i] \in 48..57
    THEN ParseDigits(t, i + 1, 10 * acc + (t[i] - 48))
    ELSE [v |-> acc, next |-> i]

ParseValue(t, i) ==
    CASE t[i] = 34 ->
            LET r == ParseStringBody(t, i + 1, <<>>)
            IN  [type |-> "string", v |-> r.v, next |-> r.next]
      [] t[i] = 116 -> [type |-> "boolean", v |-> TRUE, next |-> i + 4]
      [] t[i] = 102 -> [type |-> "boolean", v |-> FALSE, next |-> i + 5]
      [] t[i] = 110 -> [type |-> "null", v |-> <<>>, next |-> i + 4]
      [] t[i] = 45 ->
            LET r == ParseDigits(t, i + 1, 0)
            IN  [type |-> "number", v |-> 0 - r.v, next |-> r.next]
      [] OTHER ->
            LET r == ParseDigits(t, i, 0)
            IN  [type |-> "number", v |-> r.v, next |-> r.next]

\* the members of the object, as a function from property name to value
RECURSIVE ParseMembers(_, _, _)
ParseMembers(t, i, acc) ==
    LET key == ParseStringBody(t, i + 1, <<>>)
        val == ParseValue(t, key.next + 1)
        members == acc @@ (key.v :> [type |-> val.type, v |-> val.v])
    IN  IF val.next <= Len(t) /\ t[val.next] = 44
        THEN ParseMembers(t, val.next + 1, members)
        ELSE members

JSONParse(t) == ParseMembers(t, 2, <<>>)

\* the typed record of a parsed object
DecodeObject(obj) ==
    [f \in DOMAIN FieldKey |->
        IF FieldType[f] = "string|null"
        THEN (IF obj[FieldKey[f]].type = "null" THEN <<>> ELSE <<obj[FieldKey[f]].v>>)
        ELSE obj[FieldKey[f]].v]

\* the record a reader recovers from an XPComment field
DecodeXPComment(bytes) ==
    CHOOSE r \in {DecodeObject(obj) : obj \in {JSONParse(UCS2ToText(bytes))}} : TRUE

\* ------------------------------------------------------------------ state
VARIABLES
    options,                  \* this.options (capture_exif_data and capture are mutated)
    supplied,                 \* the capture_exif_data the caller handed to the constructor
    cur,                      \* the task holding the thread, "idle" for the event loop
    pc,                       \* position of composite() and of each path
    capture_caption_promise,  \* composite()'s local: "null" or the path started
    capture_normal_promise,   \* composite()'s local: "null" or the path started
    canvas,                   \* each path's OffscreenCanvas and its context
    comment_canvas,           \* each path's temporary canvas of compositeComments()
    convert,                  \* each path's convertToBlob() promise
    reader,                   \* each path's FileReader promise
    exif_string,              \* each path's local exif_string in setEXIFDataToCapture()
    result,                   \* the Blob each path's promise was fulfilled with
    ret,                      \* what composite() returned
    trace                     \* the operations on shared objects, in execution order

vars == <<options, supplied, cur, pc, capture_caption_promise, capture_normal_promise,
          canvas, comment_canvas, convert, reader, exif_string, result, ret, trace>>

Paths == {"caption", "direct", "normal"}
Tasks == Paths \cup {"composite"}

NoCanvas == [width |-> 0, height |-> 0, context |-> "none", globalAlpha |-> 100, layers |-> <<>>]

Init ==
    /\ options \in ICaptureCompositorOptions
    /\ supplied = options.capture_exif_data
    /\ cur = "idle"
    /\ pc = [t \in Tasks |-> "idle"]
    /\ capture_caption_promise = "null"
    /\ capture_normal_promise = "null"
    /\ canvas = [p \in Paths |-> NoCanvas]
    /\ comment_canvas = [p \in Paths |-> NoCanvas]
    /\ convert = [p \in Paths |-> [state |-> "none"]]
    /\ reader = [p \in Paths |-> "none"]
    /\ exif_string = [p \in Paths |-> NULL]
    /\ result = [p \in Paths |-> NULL]
    /\ ret = NULL
    /\ trace = <<>>

\* ---------------------------------------------------------------- helpers
\* where control goes when a path's synchronous run ends: back into composite()
\* while composite() is inside the call, to the event loop otherwise
Caller == IF pc["composite"] \in {"l130", "l140"} THEN "composite" ELSE "idle"

Log(p, op, arg) == trace' = Append(trace, <<p, op, arg>>)

\* an exception leaves the async function: its promise is rejected
Throw(p) ==
    /\ pc' = [pc EXCEPT ![p] = "rejected"]
    /\ cur' = Caller

\* assert(condition) of the 'assert' package throws an AssertionError
AssertionError(p, condition) ==
    /\ Throw(p)
    /\ Log(p, "AssertionError", condition)

\* Promise.all over [capture_caption_promise, capture_normal_promise]; a null
\* entry counts as fulfilled, the first rejection rejects the whole
Scheduled == {capture_caption_promise, capture_normal_promise} \ {"null"}

\* mutant: waits for every path to settle and treats a rejection as a null result
PromiseAll_allSettled ==
    IF \A p \in Scheduled : pc[p] \in {"fulfilled", "rejected"} THEN "fulfilled" ELSE "pending"

\* mutant: settles with the first path that settles
PromiseAll_race ==
    IF \E p \in Scheduled : pc[p] = "rejected" THEN "rejected"
    ELSE IF \E p \in Scheduled : pc[p] = "fulfilled" THEN "fulfilled"
    ELSE "pending"

\* mutant: a null entry of the array is waited for like a promise that never settles
PromiseAll_nullPending ==
    IF \E p \in Scheduled : pc[p] = "rejected" THEN "rejected"
    ELSE IF "null" \in {capture_caption_promise, capture_normal_promise} THEN "pending"
    ELSE IF \A p \in Scheduled : pc[p] = "fulfilled" THEN "fulfilled"
    ELSE "pending"

PromiseAll ==
    IF \E p \in Scheduled : pc[p] = "rejected" THEN "rejected"
    ELSE IF \A p \in Scheduled : pc[p] = "fulfilled" THEN "fulfilled"
    ELSE "pending"

PromiseValue(promise) == IF promise = "null" THEN NULL ELSE result[promise]

\* the reaction of composite() to a settled Promise.all is a microtask: it
\* runs before the event loop takes the next task
MicrotaskPending == pc["composite"] = "await" /\ cur = "idle" /\ PromiseAll # "pending"

EventLoop == cur = "idle" /\ ~MicrotaskPending

\* ------------------------------------------------------------ composite()
\* mutant: the captioned path is started whether or not a caption was handed in
WantsCaption_ignoresCaption == options.mode \in {"CompositingCaption", "Both"}

WantsCaption == options.mode \in {"CompositingCaption", "Both"} /\ options.caption # NULL

\* mutant: CompositingCaption without a caption produces nothing
WantsNormal_noFallback == options.mode \in {"VideoOnly", "Both"}

WantsNormal ==
    \/ options.mode \in {"VideoOnly", "Both"}
    \/ (options.mode = "CompositingCaption" /\ options.caption = NULL)

\* mutant: the comment data is not looked at
WantsDirect_ignoresComment == options.superimpose = NULL

\* mutant: the direct transfer is taken in mode VideoOnly alone
WantsDirect_onlyVideoOnly ==
    /\ options.mode = "VideoOnly"
    /\ options.superimpose = NULL /\ options.capture_comment_data = NULL

WantsDirect == options.superimpose = NULL /\ options.capture_comment_data = NULL

\* lines 124-126: the captioned path is started when a caption is to be composited
CaptionBranch(next) ==
    IF WantsCaption
    THEN /\ capture_caption_promise' = "caption"
         /\ pc' = [pc EXCEPT !["composite"] = next, !["caption"] = "l232"]
         /\ cur' = "caption"
         /\ UNCHANGED capture_normal_promise
    ELSE /\ pc' = [pc EXCEPT !["composite"] = next]
         /\ cur' = "composite"
         /\ UNCHANGED <<capture_caption_promise, capture_normal_promise>>

\* lines 130-137: the normal path, by direct transfer or by full compositing
NormalBranch(next) ==
    IF WantsNormal
    THEN IF WantsDirect
         THEN /\ capture_normal_promise' = "direct"
              /\ pc' = [pc EXCEPT !["composite"] = next, !["direct"] = "l156"]
              /\ cur' = "direct"
              /\ UNCHANGED capture_caption_promise
         ELSE /\ capture_normal_promise' = "normal"
              /\ pc' = [pc EXCEPT !["composite"] = next, !["normal"] = "l190"]
              /\ cur' = "normal"
              /\ UNCHANGED capture_caption_promise
    ELSE /\ pc' = [pc EXCEPT !["composite"] = next]
         /\ cur' = "composite"
         /\ UNCHANGED <<capture_caption_promise, capture_normal_promise>>

\* mutant: the normal path is started before the captioned path
BranchOrder_normalFirst == <<"normal", "caption">>

\* the order of the two statements in composite(): the captioned path first,
\* because the direct-transfer path releases the frame (comment at lines 116-117)
BranchOrder == <<"caption", "normal">>

Branch(b, next) == IF b = "caption" THEN CaptionBranch(next) ELSE NormalBranch(next)

\* lines 119-126
composite_l124 ==
    /\ cur = "idle" /\ pc["composite"] = "idle"
    /\ Branch(BranchOrder[1], "l130")
    /\ UNCHANGED <<options, supplied, canvas, comment_canvas,
                   convert, reader, exif_string, result, ret, trace>>

\* lines 128-137
composite_l130 ==
    /\ cur = "composite" /\ pc["composite"] = "l130"
    /\ Branch(BranchOrder[2], "l140")
    /\ UNCHANGED <<options, supplied, canvas, comment_canvas,
                   convert, reader, exif_string, result, ret, trace>>

\* line 140: await Promise.all(...) suspends composite()
composite_l140 ==
    /\ cur = "composite" /\ pc["composite"] = "l140"
    /\ cur' = "idle"
    /\ pc' = [pc EXCEPT !["composite"] = "await"]
    /\ UNCHANGED <<options, supplied, capture_caption_promise, capture_normal_promise,
                   canvas, comment_canvas, convert, reader, exif_string, result, ret, trace>>

\* lines 140-145: Promise.all was fulfilled, or it was rejected and the await throws
composite_l142 ==
    /\ MicrotaskPending
    /\ IF PromiseAll = "fulfilled"
       THEN /\ ret' = [capture_normal |-> PromiseValue(capture_normal_promise),
                       capture_caption |-> PromiseValue(capture_caption_promise)]
            /\ pc' = [pc EXCEPT !["composite"] = "fulfilled"]
       ELSE /\ pc' = [pc EXCEPT !["composite"] = "rejected"]
            /\ UNCHANGED ret
    /\ UNCHANGED <<options, supplied, cur, capture_caption_promise, capture_normal_promise,
                   canvas, comment_canvas, convert, reader, exif_string, result, trace>>


\* ------------------------------------------------- steps shared by the paths
locals == <<supplied, capture_caption_promise, capture_normal_promise, ret>>
io == <<convert, reader, exif_string, result>>

Goto(p, label) == pc' = [pc EXCEPT ![p] = label] /\ cur' = cur

\* the two assignments to this.options.capture_exif_data that open each path
SetCompositedFlags(p, caption_flag, comment_flag) ==
    /\ options' = [options EXCEPT
                      !.capture_exif_data.is_caption_composited = caption_flag,
                      !.capture_exif_data.is_comment_composited = comment_flag]
    /\ trace' = trace \o <<<<p, "write", "is_caption_composited">>,
                           <<p, "write", "is_comment_composited">>>>

\* new OffscreenCanvas(capture.width, capture.height) and getContext(type);
\* getContext() yields null when the context cannot be created
NewOffscreenCanvas(p, type) ==
    \E created \in BOOLEAN :
        /\ canvas' = [canvas EXCEPT ![p] =
                        [width |-> options.capture.width, height |-> options.capture.height,
                         context |-> IF created THEN type ELSE "null",
                         globalAlpha |-> 100, layers |-> <<>>]]
        /\ Log(p, "size", "capture")

\* context.drawImage(bitmap, 0, 0, canvas.width, canvas.height)
DrawnLayer(c, bitmap) ==
    [src |-> bitmap.bitmap, alpha |-> c.globalAlpha, width |-> c.width, height |-> c.height]

DrawImage(p, bitmap, next) ==
    IF canvas[p].context = "null"
    THEN \* TypeError: the context is null, drawImage is never reached
         /\ Throw(p)
         /\ UNCHANGED <<canvas, trace>>
    ELSE /\ Log(p, "drawImage", bitmap.bitmap)
         /\ IF bitmap.closed
            THEN \* InvalidStateError: the ImageBitmap is detached
                 Throw(p) /\ UNCHANGED canvas
            ELSE /\ canvas' = [canvas EXCEPT ![p].layers = Append(@, DrawnLayer(canvas[p], bitmap))]
                 /\ Goto(p, next)

\* lines 282-324
Ratio(n, d) == [n |-> n, d |-> d]

\* mutant: every comment is drawn with the comment opacity as well
FillText_withOpacity(comment, width_ratio, height_ratio) ==
    [text |-> comment.text, fillStyle |-> comment.color,
     font |-> [n |-> comment.font_size * width_ratio.n, d |-> width_ratio.d],
     shadowOffsetX |-> [n |-> 12 * width_ratio.n, d |-> 10 * width_ratio.d],
     shadowOffsetY |-> [n |-> 12 * width_ratio.n, d |-> 10 * width_ratio.d],
     shadowBlur |-> [n |-> 4 * width_ratio.n, d |-> width_ratio.d],
     x |-> [n |-> comment.left * width_ratio.n, d |-> width_ratio.d],
     y |-> [n |-> comment.top * height_ratio.n, d |-> height_ratio.d],
     alpha |-> options.capture_comment_data.opacity]

FillText(comment, width_ratio, height_ratio) ==
    [text |-> comment.text, fillStyle |-> comment.color,
     font |-> Ratio(comment.font_size * width_ratio.n, width_ratio.d),
     shadowOffsetX |-> Ratio(12 * width_ratio.n, 10 * width_ratio.d),
     shadowOffsetY |-> Ratio(12 * width_ratio.n, 10 * width_ratio.d),
     shadowBlur |-> Ratio(4 * width_ratio.n, width_ratio.d),
     x |-> Ratio(comment.left * width_ratio.n, width_ratio.d),
     y |-> Ratio(comment.top * height_ratio.n, height_ratio.d),
     alpha |-> 100]

compositeComments(p, next) ==
    IF options.capture_comment_data = NULL
    THEN \* assert(this.options.capture_comment_data !== null)
         AssertionError(p, "capture_comment_data") /\ UNCHANGED <<canvas, comment_canvas>>
    ELSE \E created \in BOOLEAN :
        LET data == options.capture_comment_data
            width_ratio == Ratio(canvas[p].width, data.container_width)
            height_ratio == Ratio(canvas[p].height, data.container_height)
            drawn == [i \in 1..Len(data.comments) |->
                         FillText(data.comments[i], width_ratio, height_ratio)]
            merged == [src |-> "comment_canvas", alpha |-> data.opacity,
                       width |-> canvas[p].width, height |-> canvas[p].height]
        IN  IF ~created
            THEN \* TypeError on comment_canvas_context.textBaseline
                 /\ comment_canvas' = [comment_canvas EXCEPT ![p] =
                        [width |-> canvas[p].width, height |-> canvas[p].height,
                         context |-> "null", globalAlpha |-> 100, layers |-> <<>>]]
                 /\ Throw(p)
                 /\ UNCHANGED <<canvas, trace>>
            ELSE /\ comment_canvas' = [comment_canvas EXCEPT ![p] =
                        [width |-> canvas[p].width, height |-> canvas[p].height,
                         context |-> "2d", globalAlpha |-> 100, layers |-> drawn]]
                 /\ canvas' = [canvas EXCEPT ![p].globalAlpha = data.opacity,
                                             ![p].layers = Append(@, merged)]
                 /\ trace' = trace
                        \o [i \in 1..Len(data.comments) |-> <<p, "fillText", "comment_canvas">>]
                        \o <<<<p, "globalAlpha", "canvas">>, <<p, "drawImage", "comment_canvas">>>>
                 /\ Goto(p, next)


\* ------------------------------------------- compositeInNormalDirectMode()
\* mutant: the direct-transfer path does not check what it is called with
compositeInNormalDirectMode_l156_noAssert ==
    /\ cur = "direct" /\ pc["direct"] = "l156"
    /\ Goto("direct", "l161")
    /\ UNCHANGED <<options, canvas, comment_canvas, trace, locals, io>>

\* lines 156-157
compositeInNormalDirectMode_l156 ==
    /\ cur = "direct" /\ pc["direct"] = "l156"
    /\ IF options.superimpose = NULL /\ options.capture_comment_data = NULL
       THEN Goto("direct", "l161") /\ UNCHANGED trace
       ELSE IF options.superimpose # NULL
       THEN AssertionError("direct", "superimpose")
       ELSE AssertionError("direct", "capture_comment_data")
    /\ UNCHANGED <<options, canvas, comment_canvas, locals, io>>

\* mutant: the direct-transfer path leaves the composited-flags as they are
compositeInNormalDirectMode_l161_keepsFlags ==
    /\ cur = "direct" /\ pc["direct"] = "l161"
    /\ Goto("direct", "l165")
    /\ UNCHANGED <<options, trace, canvas, comment_canvas, locals, io>>

\* lines 161-162
compositeInNormalDirectMode_l161 ==
    /\ cur = "direct" /\ pc["direct"] = "l161"
    /\ SetCompositedFlags("direct", FALSE, FALSE)
    /\ Goto("direct", "l165")
    /\ UNCHANGED <<canvas, comment_canvas, locals, io>>

\* lines 165-169
compositeInNormalDirectMode_l165 ==
    /\ cur = "direct" /\ pc["direct"] = "l165"
    /\ NewOffscreenCanvas("direct", "bitmaprenderer")
    /\ Goto("direct", "l172")
    /\ UNCHANGED <<options, comment_canvas, locals, io>>

\* lines 172-173: the frame moves into the canvas and is closed
compositeInNormalDirectMode_l172 ==
    /\ cur = "direct" /\ pc["direct"] = "l172"
    /\ IF canvas["direct"].context = "null"
       THEN /\ Throw("direct")
            /\ UNCHANGED <<options, canvas, trace>>
       ELSE IF options.capture.closed
       THEN /\ Log("direct", "transferFromImageBitmap", "capture")
            /\ Throw("direct")
            /\ UNCHANGED <<options, canvas>>
       ELSE /\ canvas' = [canvas EXCEPT !["direct"].layers =
                            <<DrawnLayer(canvas["direct"], options.capture)>>]
            /\ options' = [options EXCEPT !.capture.closed = TRUE,
                                          !.capture.width = 0, !.capture.height = 0]
            /\ trace' = trace \o <<<<"direct", "transferFromImageBitmap", "capture">>,
                                   <<"direct", "close", "capture">>>>
            /\ Goto("direct", "l404")
    /\ UNCHANGED <<comment_canvas, locals, io>>

\* ------------------------------------------------- compositeInNormalMode()
\* mutant: is_caption_composited is left as the caller set it
compositeInNormalMode_l190_keepsCaptionFlag ==
    /\ cur = "normal" /\ pc["normal"] = "l190"
    /\ SetCompositedFlags("normal", options.capture_exif_data.is_caption_composited,
                          options.capture_comment_data # NULL)
    /\ Goto("normal", "l198")
    /\ UNCHANGED <<canvas, comment_canvas, locals, io>>

\* lines 190-195
compositeInNormalMode_l190 ==
    /\ cur = "normal" /\ pc["normal"] = "l190"
    /\ SetCompositedFlags("normal", FALSE, options.capture_comment_data # NULL)
    /\ Goto("normal", "l198")
    /\ UNCHANGED <<canvas, comment_canvas, locals, io>>

\* lines 198-206
compositeInNormalMode_l198 ==
    /\ cur = "normal" /\ pc["normal"] = "l198"
    /\ NewOffscreenCanvas("normal", "2d")
    /\ Goto("normal", "l209")
    /\ UNCHANGED <<options, comment_canvas, locals, io>>

\* line 209
compositeInNormalMode_l209 ==
    /\ cur = "normal" /\ pc["normal"] = "l209"
    /\ DrawImage("normal", options.capture, "l212")
    /\ UNCHANGED <<options, comment_canvas, locals, io>>

\* mutant: the normal path draws the subtitle layer where it should draw superimpose
compositeInNormalMode_l212_drawsCaption ==
    /\ cur = "normal" /\ pc["normal"] = "l212"
    /\ IF options.caption # NULL
       THEN DrawImage("normal", options.caption, "l217")
       ELSE IF options.superimpose # NULL
       THEN DrawImage("normal", options.superimpose, "l217")
       ELSE Goto("normal", "l217") /\ UNCHANGED <<canvas, trace>>
    /\ UNCHANGED <<options, comment_canvas, locals, io>>

\* lines 212-214
compositeInNormalMode_l212 ==
    /\ cur = "normal" /\ pc["normal"] = "l212"
    /\ IF options.superimpose # NULL
       THEN DrawImage("normal", options.superimpose, "l217")
       ELSE Goto("normal", "l217") /\ UNCHANGED <<canvas, trace>>
    /\ UNCHANGED <<options, comment_canvas, locals, io>>

\* lines 217-219
compositeInNormalMode_l217 ==
    /\ cur = "normal" /\ pc["normal"] = "l217"
    /\ IF options.capture_comment_data # NULL
       THEN compositeComments("normal", "l404")
       ELSE Goto("normal", "l404") /\ UNCHANGED <<canvas, comment_canvas, trace>>
    /\ UNCHANGED <<options, locals, io>>

\* ------------------------------------------------ compositeInCaptionMode()
\* line 232
compositeInCaptionMode_l232 ==
    /\ cur = "caption" /\ pc["caption"] = "l232"
    /\ IF options.caption # NULL
       THEN Goto("caption", "l237") /\ UNCHANGED trace
       ELSE AssertionError("caption", "caption")
    /\ UNCHANGED <<options, canvas, comment_canvas, locals, io>>

\* mutant: is_comment_composited is always written false
compositeInCaptionMode_l237_commentFalse ==
    /\ cur = "caption" /\ pc["caption"] = "l237"
    /\ SetCompositedFlags("caption", TRUE, FALSE)
    /\ Goto("caption", "l245")
    /\ UNCHANGED <<canvas, comment_canvas, locals, io>>

\* lines 237-242
compositeInCaptionMode_l237 ==
    /\ cur = "caption" /\ pc["caption"] = "l237"
    /\ SetCompositedFlags("caption", TRUE, options.capture_comment_data # NULL)
    /\ Goto("caption", "l245")
    /\ UNCHANGED <<canvas, comment_canvas, locals, io>>

\* lines 245-253
compositeInCaptionMode_l245 ==
    /\ cur = "caption" /\ pc["caption"] = "l245"
    /\ NewOffscreenCanvas("caption", "2d")
    /\ Goto("caption", "l256")
    /\ UNCHANGED <<options, comment_canvas, locals, io>>

\* line 256
compositeInCaptionMode_l256 ==
    /\ cur = "caption" /\ pc["caption"] = "l256"
    /\ DrawImage("caption", options.capture, "l259")
    /\ UNCHANGED <<options, comment_canvas, locals, io>>

\* lines 259-261
compositeInCaptionMode_l259 ==
    /\ cur = "caption" /\ pc["caption"] = "l259"
    /\ IF options.superimpose # NULL
       THEN DrawImage("caption", options.superimpose, "l264")
       ELSE Goto("caption", "l264") /\ UNCHANGED <<canvas, trace>>
    /\ UNCHANGED <<options, comment_canvas, locals, io>>

\* line 264
compositeInCaptionMode_l264 ==
    /\ cur = "caption" /\ pc["caption"] = "l264"
    /\ DrawImage("caption", options.caption, "l267")
    /\ UNCHANGED <<options, comment_canvas, locals, io>>

\* lines 267-269
compositeInCaptionMode_l267 ==
    /\ cur = "caption" /\ pc["caption"] = "l267"
    /\ IF options.capture_comment_data # NULL
       THEN compositeComments("caption", "l404")
       ELSE Goto("caption", "l404") /\ UNCHANGED <<canvas, comment_canvas, trace>>
    /\ UNCHANGED <<options, locals, io>>


\* ----------------------------------------------------------- exportToBlob()
\* line 404: canvas.convertToBlob() is started and awaited
exportToBlob_l404(p) ==
    /\ cur = p /\ pc[p] = "l404"
    /\ convert' = [convert EXCEPT ![p] = [state |-> "pending"]]
    /\ pc' = [pc EXCEPT ![p] = "awaitConvert"]
    /\ cur' = Caller
    /\ UNCHANGED <<options, canvas, comment_canvas, trace, locals, reader, exif_string, result>>

\* the browser settles convertToBlob(): a JPEG, the PNG fallback of an
\* encoder without JPEG support, or a rejection
Blob(c, type) ==
    [type |-> type, width |-> c.width, height |-> c.height, layers |-> c.layers, exif |-> NULL]

convertToBlob_settle(p) ==
    /\ EventLoop /\ convert[p].state = "pending"
    /\ \E outcome \in {"image/jpeg", "image/png", "rejected"} :
          convert' = [convert EXCEPT ![p] =
              IF outcome = "rejected" THEN [state |-> "rejected"]
              ELSE [state |-> "resolved", blob |-> Blob(canvas[p], outcome)]]
    /\ UNCHANGED <<options, cur, pc, canvas, comment_canvas, trace, locals,
                   reader, exif_string, result>>

\* line 407 and setEXIFDataToCapture() lines 336-376: the metadata record is
\* serialised as it is now, then the read of the encoded bytes is awaited
exportToBlob_l407(p) ==
    /\ EventLoop /\ pc[p] = "awaitConvert" /\ convert[p].state # "pending"
    /\ IF convert[p].state = "rejected"
       THEN /\ pc' = [pc EXCEPT ![p] = "rejected"]
            /\ UNCHANGED <<exif_string, reader, trace>>
       ELSE /\ exif_string' = [exif_string EXCEPT ![p] = PiexifDump(options.capture_exif_data)]
            /\ reader' = [reader EXCEPT ![p] = "pending"]
            /\ pc' = [pc EXCEPT ![p] = "awaitRead"]
            /\ Log(p, "stringify", "capture_exif_data")
    /\ UNCHANGED <<options, cur, canvas, comment_canvas, locals, convert, result>>

\* the FileReader fires onload or onerror
FileReader_settle(p) ==
    /\ EventLoop /\ reader[p] = "pending"
    /\ \E outcome \in {"load", "error"} : reader' = [reader EXCEPT ![p] = outcome]
    /\ UNCHANGED <<options, cur, pc, canvas, comment_canvas, trace, locals,
                   convert, exif_string, result>>

\* piexif.insert throws unless the data is a JPEG
PiexifInsert(exif, blob) == [blob EXCEPT !.exif = exif]

\* mutant: a failed read or splice is swallowed and the encoded image returned as it is
setEXIFDataToCapture_l380_swallow(p) ==
    /\ EventLoop /\ pc[p] = "awaitRead" /\ reader[p] # "pending"
    /\ IF reader[p] = "error" \/ convert[p].blob.type # "image/jpeg"
       THEN result' = [result EXCEPT ![p] = convert[p].blob]
       ELSE result' = [result EXCEPT ![p] = PiexifInsert(exif_string[p], convert[p].blob)]
    /\ pc' = [pc EXCEPT ![p] = "fulfilled"]
    /\ UNCHANGED <<options, cur, canvas, comment_canvas, trace, locals,
                   convert, reader, exif_string>>

\* setEXIFDataToCapture() lines 380-390 and exportToBlob() lines 407-410
setEXIFDataToCapture_l380(p) ==
    /\ EventLoop /\ pc[p] = "awaitRead" /\ reader[p] # "pending"
    /\ IF reader[p] = "error" \/ convert[p].blob.type # "image/jpeg"
       THEN /\ pc' = [pc EXCEPT ![p] = "rejected"]
            /\ UNCHANGED result
       ELSE /\ result' = [result EXCEPT ![p] = PiexifInsert(exif_string[p], convert[p].blob)]
            /\ pc' = [pc EXCEPT ![p] = "fulfilled"]
    /\ UNCHANGED <<options, cur, canvas, comment_canvas, trace, locals,
                   convert, reader, exif_string>>

\* ------------------------------------------------------------ specification
Next ==
    \/ composite_l124
    \/ composite_l130
    \/ composite_l140
    \/ composite_l142
    \/ compositeInNormalDirectMode_l156
    \/ compositeInNormalDirectMode_l161
    \/ compositeInNormalDirectMode_l165
    \/ compositeInNormalDirectMode_l172
    \/ compositeInNormalMode_l190
    \/ compositeInNormalMode_l198
    \/ compositeInNormalMode_l209
    \/ compositeInNormalMode_l212
    \/ compositeInNormalMode_l217
    \/ compositeInCaptionMode_l232
    \/ compositeInCaptionMode_l237
    \/ compositeInCaptionMode_l245
    \/ compositeInCaptionMode_l256
    \/ compositeInCaptionMode_l259
    \/ compositeInCaptionMode_l264
    \/ compositeInCaptionMode_l267
    \/ \E p \in Paths : exportToBlob_l404(p)
    \/ \E p \in Paths : convertToBlob_settle(p)
    \/ \E p \in Paths : exportToBlob_l407(p)
    \/ \E p \in Paths : FileReader_settle(p)
    \/ \E p \in Paths : setEXIFDataToCapture_l380(p)

Spec == Init /\ [][Next]_vars


\* ------------------------------------------------------------------ fairness
\* the steps of the program itself: the JavaScript engine runs a task that
\* holds the thread to its next await, and runs a continuation whose awaited
\* promise has settled
ProgramSteps ==
    \/ composite_l124 \/ composite_l130 \/ composite_l140 \/ composite_l142
    \/ compositeInNormalDirectMode_l156 \/ compositeInNormalDirectMode_l161
    \/ compositeInNormalDirectMode_l165 \/ compositeInNormalDirectMode_l172
    \/ compositeInNormalMode_l190 \/ compositeInNormalMode_l198
    \/ compositeInNormalMode_l209 \/ compositeInNormalMode_l212
    \/ compositeInNormalMode_l217
    \/ compositeInCaptionMode_l232 \/ compositeInCaptionMode_l237
    \/ compositeInCaptionMode_l245 \/ compositeInCaptionMode_l256
    \/ compositeInCaptionMode_l259 \/ compositeInCaptionMode_l264
    \/ compositeInCaptionMode_l267
    \/ \E p \in Paths : exportToBlob_l404(p)
    \/ \E p \in Paths : exportToBlob_l407(p)
    \/ \E p \in Paths : setEXIFDataToCapture_l380(p)

\* the engine keeps running what is runnable, and every convertToBlob() and
\* every FileReader read completes or fails
Fairness ==
    /\ WF_vars(ProgramSteps)
    /\ \A p \in Paths : WF_vars(convertToBlob_settle(p))
    /\ \A p \in Paths : WF_vars(FileReader_settle(p))

FairSpec == Init /\ [][Next]_vars /\ Fairness

\* ------------------------------------------- the paths called on their own
\* The three compositeIn...() methods are private: composite() is their only
\* caller in the class. PathSpec calls them directly instead, with any
\* options, one call at a time: a method is called when every method called
\* before it has delivered its Blob.
CanCall(p) ==
    /\ cur = "idle" /\ pc["composite"] = "idle" /\ pc[p] = "idle"
    /\ \A q \in Paths : pc[q] \in {"idle", "fulfilled"}

Call(p, entry) ==
    /\ CanCall(p)
    /\ pc' = [pc EXCEPT ![p] = entry]
    /\ cur' = p
    /\ UNCHANGED <<options, canvas, comment_canvas, trace, locals, io>>

call_compositeInNormalDirectMode == Call("direct", "l156")

call_compositeInNormalMode == Call("normal", "l190")

call_compositeInCaptionMode == Call("caption", "l232")

PathNext ==
    \/ call_compositeInNormalDirectMode
    \/ call_compositeInNormalMode
    \/ call_compositeInCaptionMode
    \/ compositeInNormalDirectMode_l156
    \/ compositeInNormalDirectMode_l161
    \/ compositeInNormalDirectMode_l165
    \/ compositeInNormalDirectMode_l172
    \/ compositeInNormalMode_l190
    \/ compositeInNormalMode_l198
    \/ compositeInNormalMode_l209
    \/ compositeInNormalMode_l212
    \/ compositeInNormalMode_l217
    \/ compositeInCaptionMode_l232
    \/ compositeInCaptionMode_l237
    \/ compositeInCaptionMode_l245
    \/ compositeInCaptionMode_l256
    \/ compositeInCaptionMode_l259
    \/ compositeInCaptionMode_l264
    \/ compositeInCaptionMode_l267
    \/ \E p \in Paths : exportToBlob_l404(p)
    \/ \E p \in Paths : convertToBlob_settle(p)
    \/ \E p \in Paths : exportToBlob_l407(p)
    \/ \E p \in Paths : FileReader_settle(p)
    \/ \E p \in Paths : setEXIFDataToCapture_l380(p)

PathSpec == Init /\ [][PathNext]_vars

\* ================================================================ properties
NormalPaths == {"direct", "normal"}
FlagFields == {"is_caption_composited", "is_comment_composited"}
Settled == {"fulfilled", "rejected"}

\* the metadata record a reader decodes from a produced Blob
Embedded(blob) == DecodeXPComment(blob.exif.XPComment)

\* the decision table of the outputs, from the mode and the presence of a caption
TableNormal ==
    \/ options.mode = "VideoOnly"
    \/ options.mode = "Both"
    \/ (options.mode = "CompositingCaption" /\ options.caption = NULL)

TableCaption == options.caption # NULL /\ options.mode \in {"CompositingCaption", "Both"}

\* the path whose write of the composited-flags is the latest one
LastWriter ==
    LET writes == {i \in 1..Len(trace) : trace[i][2] = "write"}
    IN  IF writes = {} THEN "none"
        ELSE trace[CHOOSE i \in writes : \A k \in writes : k <= i][1]

\* C1: a successful composite() returns capture_normal non-null exactly when the
\* mode is VideoOnly or Both, or CompositingCaption without a caption, and
\* capture_caption non-null exactly when a caption is present and the mode is
\* CompositingCaption or Both; at least one output is produced.
C1_DecisionTable ==
    pc["composite"] = "fulfilled" =>
        /\ (ret.capture_normal # NULL) <=> TableNormal
        /\ (ret.capture_caption # NULL) <=> TableCaption
        /\ ret.capture_normal # NULL \/ ret.capture_caption # NULL

C1_Witness ==
    /\ pc["composite"] = "fulfilled"
    /\ options.mode = "CompositingCaption" /\ options.caption = NULL
    /\ ret.capture_normal # NULL /\ ret.capture_caption = NULL

\* C2: each output's embedded metadata carries the composited-flags written by
\* its own path: when a path serialises the record the latest write of the flags
\* is its own, the captioned output has caption_composited = true and the normal
\* output has caption_composited = false.
C2_OwnFlags ==
    /\ \A j \in 1..Len(trace) : trace[j][2] = "stringify" =>
          \A i \in 1..(j - 1) :
              (trace[i][2] = "write" /\ \A k \in (i + 1)..(j - 1) : trace[k][2] # "write")
                  => trace[i][1] = trace[j][1]
    /\ result["caption"] # NULL => Embedded(result["caption"]).is_caption_composited
    /\ \A p \in NormalPaths :
          result[p] # NULL => ~Embedded(result[p]).is_caption_composited

\* C3: the metadata embedded in the normal output, from the direct-transfer path
\* or from the full composite path, never has caption_composited = true.
C3_NormalNeverCaptioned ==
    /\ \A p \in NormalPaths :
          result[p] # NULL => Embedded(result[p]).is_caption_composited = FALSE
    /\ pc["composite"] = "fulfilled" =>
          ret.capture_normal \in {NULL, result["direct"], result["normal"]}

C3_Witness ==
    /\ result["normal"] # NULL /\ result["caption"] # NULL
    /\ supplied.is_caption_composited = TRUE

\* C4: every produced output has comment_composited = true in its embedded
\* metadata if and only if the job carries comment data.
C4_CommentFlag ==
    \A p \in Paths :
        result[p] # NULL =>
            (Embedded(result[p]).is_comment_composited <=> options.capture_comment_data # NULL)

C4_Witness ==
    /\ result["normal"] # NULL /\ result["caption"] # NULL
    /\ options.capture_comment_data # NULL
    /\ supplied.is_comment_composited = FALSE

\* C5 (as claimed): the direct-transfer path is never scheduled together with
\* the captioned production.
C5_DirectIsSole ==
    capture_normal_promise = "direct" => capture_caption_promise = "null"

\* C5 (amended): the direct-transfer path runs only when the normal output is
\* required and neither superimpose nor comment data is present; when the
\* captioned output is required too, the captioned path was started first and
\* has finished its drawing (it awaits its encode or has failed) by then.
C5_DirectAfterCaptionDrawn ==
    pc["direct"] # "idle" =>
        /\ TableNormal
        /\ options.superimpose = NULL /\ options.capture_comment_data = NULL
        /\ TableCaption =>
              pc["caption"] \in {"awaitConvert", "awaitRead", "fulfilled", "rejected"}

C5_Witness ==
    /\ capture_normal_promise = "direct" /\ capture_caption_promise = "caption"
    /\ pc["direct"] = "fulfilled" /\ pc["caption"] = "fulfilled"

\* C6: once the direct-transfer path has transferred and closed the frame, no
\* path reads or draws the frame; a path that draws the frame has drawn it
\* before the frame is consumed.
C6_NoFrameUseAfterConsume ==
    /\ \A i \in 1..Len(trace) : \A j \in (i + 1)..Len(trace) :
          trace[i] = <<"direct", "close", "capture">> => trace[j][3] # "capture"
    /\ options.capture.closed =>
          /\ pc["caption"] \notin {"l232", "l237", "l245", "l256"}
          /\ pc["normal"] \notin {"l190", "l198", "l209"}
          /\ TableCaption => pc["caption"] # "idle"

C6_Witness ==
    /\ options.capture.closed
    /\ result["caption"] # NULL /\ result["caption"].layers[1].src = "capture"
    /\ result["direct"] # NULL

\* C7: when a scheduled path fails, composite() does not return a result; a
\* result it returns has every output the decision table requires.
C7_FailurePropagates ==
    /\ (\E p \in Paths : pc[p] = "rejected") => pc["composite"] # "fulfilled"
    /\ pc["composite"] = "fulfilled" =>
          /\ TableNormal => ret.capture_normal # NULL
          /\ TableCaption => ret.capture_caption # NULL

C7_Witness ==
    /\ pc["composite"] = "rejected"
    /\ \E p \in Paths : pc[p] = "rejected"
    /\ \E p \in Paths : pc[p] = "fulfilled"

\* C8 (as claimed): composite() has not completed, by a result or by a failure,
\* while a path it scheduled is still running.
C8_CompletesAfterAllPaths ==
    pc["composite"] \in Settled => \A p \in Paths : pc[p] \in Settled \cup {"idle"}

\* C8 (amended): composite() returns a result only when every path it scheduled
\* has finished; it fails only when a scheduled path has failed (another
\* scheduled path may then still be running).
C8_ReturnsAfterAllPaths ==
    /\ pc["composite"] = "fulfilled" => \A p \in Paths : pc[p] \in {"idle", "fulfilled"}
    /\ pc["composite"] = "rejected" => \E p \in Paths : pc[p] = "rejected"

C8_Witness ==
    /\ pc["composite"] = "fulfilled"
    /\ pc["caption"] = "fulfilled" /\ pc["normal"] = "fulfilled"

\* C9: every produced output has the metadata block of its path spliced into a
\* JPEG; a path whose encode, read of the encoded bytes or splice failed
\* produces no output.
C9_OutputsCarryMetadata ==
    /\ \A p \in Paths :
          result[p] # NULL =>
              /\ result[p].exif # NULL /\ result[p].exif = exif_string[p]
              /\ result[p].type = "image/jpeg"
    /\ \A p \in Paths :
          (\/ convert[p].state = "rejected"
           \/ reader[p] = "error"
           \/ (convert[p].state = "resolved" /\ convert[p].blob.type # "image/jpeg"))
              => (result[p] = NULL /\ pc[p] # "fulfilled")
    /\ pc["composite"] = "fulfilled" =>
          /\ ret.capture_normal # NULL => ret.capture_normal.exif # NULL
          /\ ret.capture_caption # NULL => ret.capture_caption.exif # NULL

C9_Witness ==
    /\ \E p \in Paths : reader[p] = "error" /\ pc[p] = "rejected"
    /\ \E p \in Paths : result[p] # NULL

\* C10: the record decoded from a produced output equals the facts the caller
\* supplied in every field but the two composited-flags, composite() changes no
\* other field, and the flags are those the paths wrote: both flags are written
\* before any serialisation.
C10_RoundTrip ==
    /\ \A f \in (DOMAIN FieldKey) \ FlagFields : options.capture_exif_data[f] = supplied[f]
    /\ \A j \in 1..Len(trace) : trace[j][2] = "stringify" =>
          \A f \in FlagFields : \E i \in 1..(j - 1) : trace[i][2] = "write" /\ trace[i][3] = f
    /\ \A p \in Paths :
          result[p] # NULL =>
              \A decoded \in {Embedded(result[p])} :
                  /\ \A f \in (DOMAIN FieldKey) \ FlagFields : decoded[f] = supplied[f]
                  /\ decoded.is_caption_composited = (LastWriter = "caption")
                  /\ decoded.is_comment_composited = (options.capture_comment_data # NULL)

C10_Witness ==
    \E p \in Paths :
        /\ result[p] # NULL
        /\ supplied.caption_text # <<>>
        /\ supplied.is_caption_composited /\ ~Embedded(result[p]).is_caption_composited
        /\ ~supplied.is_comment_composited /\ Embedded(result[p]).is_comment_composited

\* the paths that composite the layers themselves
FullPaths == {"normal", "caption"}

\* the sources of the layers of a surface, bottom first
Sources(layers) == [i \in 1..Len(layers) |-> layers[i].src]

IsPrefix(s, t) == Len(s) <= Len(t) /\ \A i \in 1..Len(s) : s[i] = t[i]

\* the layer stack a full composite path is to build: the frame, superimpose
\* if present, the subtitle on the captioned path, the comments if present
ExpectedStack(p) ==
    <<"capture">>
    \o (IF options.superimpose # NULL THEN <<"superimpose">> ELSE <<>>)
    \o (IF p = "caption" THEN <<"caption">> ELSE <<>>)
    \o (IF options.capture_comment_data # NULL THEN <<"comment_canvas">> ELSE <<>>)

\* C11: on each full composite path the layers are drawn in the order frame,
\* superimpose (if present), subtitle (captioned path only), comments (if
\* present, last); the normal path never draws the subtitle, and the encode
\* of a path starts only when its last layer is drawn.
C11_DrawOrder ==
    \A p \in FullPaths :
        /\ IsPrefix(Sources(canvas[p].layers), ExpectedStack(p))
        /\ convert[p].state # "none" => Sources(canvas[p].layers) = ExpectedStack(p)
        /\ result[p] # NULL => Sources(result[p].layers) = ExpectedStack(p)
        /\ p = "normal" => \A i \in 1..Len(canvas[p].layers) : canvas[p].layers[i].src # "caption"
        /\ LET draws == SelectSeq(trace, LAMBDA e : e[1] = p /\ e[2] = "drawImage")
           IN  pc[p] # "rejected" => [i \in 1..Len(draws) |-> draws[i][3]] = Sources(canvas[p].layers)

C11_Witness ==
    /\ result["caption"] # NULL /\ result["normal"] # NULL
    /\ Sources(result["caption"].layers) = <<"capture", "superimpose", "caption", "comment_canvas">>
    /\ Sources(result["normal"].layers) = <<"capture", "superimpose", "comment_canvas">>

\* C13: when the normal output is the only output the decision table requires
\* and neither superimpose nor comment data is present, composite() produces
\* the normal output by the direct-transfer path and never runs the full
\* composite normal path.
C13_DirectWhenAlone ==
    (/\ TableNormal /\ ~TableCaption
     /\ options.superimpose = NULL /\ options.capture_comment_data = NULL) =>
        /\ pc["normal"] = "idle" /\ pc["caption"] = "idle"
        /\ canvas["normal"] = NoCanvas
        /\ pc["composite"] \notin {"idle", "l130"} =>
              capture_normal_promise = "direct" /\ pc["direct"] # "idle"
        /\ pc["composite"] = "fulfilled" =>
              /\ ret.capture_normal # NULL /\ ret.capture_normal = result["direct"]
              /\ ret.capture_caption = NULL

C13_Witness ==
    /\ options.mode = "CompositingCaption" /\ options.caption = NULL
    /\ options.superimpose = NULL /\ options.capture_comment_data = NULL
    /\ pc["composite"] = "fulfilled" /\ ret.capture_normal = result["direct"]
    /\ Sources(ret.capture_normal.layers) = <<"capture">>

\* the assert() calls that have failed
FailedAsserts == SelectSeq(trace, LAMBDA e : e[2] = "AssertionError")

\* C16: in an execution started through composite() no assert() fails: the
\* direct-transfer path is entered only with superimpose and comment data both
\* absent, the captioned path only with a caption, and compositeComments()
\* only with comment data.
C16_NoAssertionFails ==
    /\ FailedAsserts = <<>>
    /\ pc["direct"] # "idle" =>
          options.superimpose = NULL /\ options.capture_comment_data = NULL
    /\ pc["caption"] # "idle" => options.caption # NULL
    /\ \A p \in Paths :
          comment_canvas[p] # NoCanvas => options.capture_comment_data # NULL

C16_Witness ==
    /\ pc["composite"] = "fulfilled"
    /\ pc["caption"] = "fulfilled" /\ pc["normal"] = "fulfilled"
    /\ comment_canvas["caption"].context = "2d" /\ comment_canvas["normal"].context = "2d"
    /\ FailedAsserts = <<>>

\* the events of path p in the trace, in order
EventsOf(p) == SelectSeq(trace, LAMBDA e : e[1] = p)

\* C15: the comment opacity is applied once per output, to the merge of the
\* rendered comment layer and to nothing else: the comments are drawn in input
\* order on a separate surface at full opacity, the frame, superimpose and
\* the subtitle are drawn at full opacity, and after globalAlpha is set on an
\* output surface's context the only draw on that surface is the merge.
C15_OpacityOnMergeOnly ==
    \A p \in Paths :
        LET L == canvas[p].layers
            merges == {i \in 1..Len(L) : L[i].src = "comment_canvas"}
            ev == EventsOf(p)
            sets == {i \in 1..Len(ev) : ev[i][2] = "globalAlpha"}
        IN  /\ \A i \in (1..Len(L)) \ merges : L[i].alpha = 100
            /\ \A i \in merges :
                  /\ i = Len(L)
                  /\ L[i].alpha = options.capture_comment_data.opacity
            /\ Cardinality(merges) <= 1 /\ Cardinality(sets) = Cardinality(merges)
            /\ (convert[p].state # "none" /\ options.capture_comment_data # NULL /\ p # "direct")
                  => Cardinality(merges) = 1
            /\ \A i \in sets :
                  /\ i + 1 <= Len(ev) /\ ev[i + 1] = <<p, "drawImage", "comment_canvas">>
                  /\ \A k \in (i + 2)..Len(ev) : ev[k][2] # "drawImage"
            /\ canvas[p].globalAlpha # 100 => merges # {}
            /\ comment_canvas[p].globalAlpha = 100
            /\ comment_canvas[p].context = "2d" =>
                  /\ Len(comment_canvas[p].layers) = Len(options.capture_comment_data.comments)
                  /\ \A i \in 1..Len(comment_canvas[p].layers) :
                        /\ comment_canvas[p].layers[i].text = options.capture_comment_data.comments[i].text
                        /\ comment_canvas[p].layers[i].alpha = 100
            /\ result[p] # NULL => result[p].layers = L

C15_Witness ==
    /\ result["caption"] # NULL /\ options.capture_comment_data # NULL
    /\ options.capture_comment_data.opacity = 50
    /\ Len(options.capture_comment_data.comments) = MaxComments
    /\ options.superimpose # NULL
    /\ [i \in 1..4 |-> result["caption"].layers[i].alpha] = <<100, 100, 100, 50>>

\* neither superimpose nor comment data was handed in
NoExtraLayers == options.superimpose = NULL /\ options.capture_comment_data = NULL

\* the frame as it was handed in (the direct-transfer path closes it)
Frame == ImageBitmap("capture")

\* the frame alone, drawn at full opacity over a surface of its size
FrameAlone ==
    <<[src |-> Frame.bitmap, alpha |-> 100, width |-> Frame.width, height |-> Frame.height]>>

\* C12: with no superimpose and no comment data the direct-transfer path and
\* the full composite normal path produce the same output: the frame alone on
\* a surface of the frame's size, with is_caption_composited = false and
\* is_comment_composited = false embedded.
C12_DirectEqualsFull ==
    NoExtraLayers =>
        /\ \A p \in NormalPaths :
              /\ convert[p].state # "none" =>
                    /\ canvas[p].layers = FrameAlone
                    /\ canvas[p].width = Frame.width /\ canvas[p].height = Frame.height
              /\ result[p] # NULL =>
                    /\ result[p].layers = FrameAlone
                    /\ result[p].width = Frame.width /\ result[p].height = Frame.height
                    /\ \A decoded \in {Embedded(result[p])} :
                          /\ ~decoded.is_caption_composited
                          /\ ~decoded.is_comment_composited
        /\ (result["direct"] # NULL /\ result["normal"] # NULL) =>
              result["direct"] = result["normal"]

C12_Witness ==
    /\ NoExtraLayers
    /\ result["direct"] # NULL /\ result["normal"] # NULL
    /\ result["direct"] = result["normal"]
    /\ pc["caption"] = "idle"
    /\ supplied.is_caption_composited /\ supplied.is_comment_composited

\* path p was called although its precondition does not hold
CalledInViolation(p) ==
    /\ pc[p] # "idle"
    /\ \/ p = "direct" /\ ~NoExtraLayers
       \/ p = "caption" /\ options.caption = NULL

\* C14: a path called in violation of its precondition (the direct-transfer
\* path with superimpose or comment data present, the captioned path without
\* a caption) fails in its first synchronous run by a failed assert, before
\* it writes a composited-flag, creates or draws on a surface or consumes the
\* frame, and it produces no output.
C14_FailsFastUntouched ==
    \A p \in Paths :
        CalledInViolation(p) =>
            /\ pc[p] \in {"l156", "l232", "rejected"}
            /\ pc[p] # "rejected" => cur = p
            /\ pc[p] = "rejected" =>
                  \E i \in 1..Len(FailedAsserts) : FailedAsserts[i][1] = p
            /\ \A i \in 1..Len(trace) : trace[i][1] = p => trace[i][2] = "AssertionError"
            /\ canvas[p] = NoCanvas /\ comment_canvas[p] = NoCanvas
            /\ convert[p].state = "none" /\ reader[p] = "none"
            /\ exif_string[p] = NULL /\ result[p] = NULL
            /\ (\A q \in Paths \ {p} : pc[q] = "idle") =>
                  /\ options.capture_exif_data = supplied
                  /\ options.capture = Frame

C14_Witness ==
    /\ pc["direct"] = "rejected" /\ pc["normal"] = "idle" /\ pc["caption"] = "idle"
    /\ options.superimpose # NULL
    /\ FailedAsserts = <<<<"direct", "AssertionError", "superimpose">>>>
    /\ supplied.is_caption_composited /\ options.capture_exif_data = supplied
    /\ ~options.capture.closed

\* C17: if every convertToBlob() and every read of the encoded bytes completes
\* or fails and the engine keeps running what is runnable, composite()
\* eventually completes: it returns a result with every output the decision
\* table requires or it fails; it does not wait forever, also when no
\* captioned path or no normal path was started.
C17_CompositeCompletes ==
    <>(\/ pc["composite"] = "rejected"
       \/ /\ pc["composite"] = "fulfilled"
          /\ TableNormal => ret.capture_normal # NULL
          /\ TableCaption => ret.capture_caption # NULL)

C17_Witness ==
    /\ pc["composite"] = "fulfilled"
    /\ capture_caption_promise = "null" /\ capture_normal_promise = "normal"
    /\ ret.capture_caption = NULL /\ ret.capture_normal = result["normal"]
    /\ options.mode = "Both"

====
